---- MODULE Spec2Model ----
(***************************************************************************)
(* GarudaRush prototype dashboard (src/app.py).                            *)
(*                                                                         *)
(* The Streamlit script runs top to bottom on every user event and on      *)
(* every automatic rerun.  One run of the script is modelled as a chain of *)
(* steps in source order:                                                  *)
(*   RunScript        lines 121-128  Start/Stop Monitoring button          *)
(*   Tick / SkipTick  lines 170-222  traffic generation (if monitoring)    *)
(*   Settings         lines 352-389  threshold slider, Reset Statistics    *)
(*   AutoRefresh      lines 634-636  sleep and rerun (if monitoring)       *)
(* Rendering (metrics, charts, tables) reads the state and is left out.    *)
(*                                                                         *)
(* Real numbers are scaled to integers: the alert-probability draw and the *)
(* detection threshold are in hundredths (0.85 is 85), the confidence is   *)
(* in tenths (85.0 is 850).                                                *)
(***************************************************************************)
EXTENDS Integers, Sequences, FiniteSets

VARIABLES
    monitoring,           \* st.session_state.monitoring
    total_packets,        \* st.session_state.total_packets
    attacks_detected,     \* st.session_state.attacks_detected
    normal_traffic,       \* st.session_state.normal_traffic
    alerts,               \* st.session_state.alerts
    traffic_data,         \* st.session_state.traffic_data
    attack_distribution,  \* st.session_state.attack_distribution
    db_records,           \* st.session_state.db_records
    detection_threshold,  \* st.session_state.detection_threshold
    pc,                   \* position of the script run
    event,                \* the widget event that started the current run
    rerun,                \* an st.rerun() is pending
    clock,                \* number of ticks performed so far (drives datetime.now)
    hist,                 \* history: samples generated since the last reset
    emitted,              \* history: alerts created since the last reset
    insertLog,            \* history: every record built by store_in_database
    lastDraw,             \* history: the random draws of the latest tick
    resets                \* history: number of Reset Statistics presses so far

vars == <<monitoring, total_packets, attacks_detected, normal_traffic, alerts,
          traffic_data, attack_distribution, db_records, detection_threshold,
          pc, event, rerun, clock, hist, emitted, insertLog, lastDraw, resets>>

\* ---------------------------------------------------------------- bounds
MaxTicks == 3        \* ticks per behaviour under Spec (free draws)
MaxTicksLong == 32   \* ticks per behaviour under SpecLong (scripted draws)
MaxResets == 1       \* presses of Reset Statistics per behaviour

\* ------------------------------------------------------ program constants
TrafficWindow == 30    \* len(traffic_data) > 30
AlertCap == 15         \* alerts[:15]
AlertCutoff == 85      \* np.random.random() > 0.85
RecentCount == 10      \* db_records[-10:]

\* The keys of attack_distribution, in insertion order.
AttackTypes == <<"SYN Flood", "UDP Flood", "HTTP Flood", "Slowloris", "DNS Amplification">>

Severities == <<"Critical", "High", "Medium">>

AttackTypeSet == {AttackTypes[i] : i \in 1..Len(AttackTypes)}

\* ------------------------------------------------------------ list helpers
\* Python s[:n]
Head_n(s, n) == SubSeq(s, 1, IF Len(s) < n THEN Len(s) ELSE n)

\* Python s[-n:]
Last_n(s, n) == SubSeq(s, IF Len(s) < n THEN 1 ELSE Len(s) - n + 1, Len(s))

\* Python s[::-1]
Reverse(s) == [i \in 1..Len(s) |-> s[Len(s) + 1 - i]]

Min(a, b) == IF a < b THEN a ELSE b

\* sum(attack_distribution.values())
RECURSIVE SumOver(_, _)
SumOver(f, S) ==
    IF S = {} THEN 0
    ELSE LET x == CHOOSE y \in S : TRUE IN f[x] + SumOver(f, S \ {x})

DistributionTotal == SumOver(attack_distribution, DOMAIN attack_distribution)

\* ------------------------------------------------------------ environment
\* datetime.now(): a logical clock that advances with the ticks.
Now == clock + 1

\* One tick's random draws.  attack_type, severity, source, destination and
\* confidence are only drawn when r exceeds the cutoff.
Draw(n, s, a, r, ty, sev, src, dst, conf) ==
    [normal |-> n, suspicious |-> s, attack |-> a, r |-> r, attack_type |-> ty,
     severity |-> sev, source |-> src, destination |-> dst, confidence |-> conf]

\* Draws explored exhaustively under Spec: both ends of the randint ranges,
\* the draw exactly at the cutoff and the one just above it, two attack types.
FreeDraws ==
    LET samples == {<<50, 0, 0>>, <<149, 29, 19>>}
    IN  {Draw(s[1], s[2], s[3], 85, "none", "none", <<>>, 0, 0) : s \in samples}
        \cup
        {Draw(s[1], s[2], s[3], 86, ty, "High", <<10, 254, 1, 7>>, 254, 850) :
            s \in samples, ty \in {"SYN Flood", "DNS Amplification"}}

\* Draws of the n-th tick under SpecLong: a fixed script that walks through
\* the ranges, cycles the attack types and skips the alert every fourth tick.
ScriptDraw(n) ==
    IF n % 4 = 3
    THEN Draw(50 + ((n * 37) % 100), (n * 7) % 30, (n * 3) % 20, (n * 17) % 86,
              "none", "none", <<>>, 0, 0)
    ELSE Draw(50 + ((n * 37) % 100), (n * 7) % 30, (n * 3) % 20, 86 + (n % 14),
              AttackTypes[(n % 5) + 1], Severities[(n % 3) + 1],
              <<1 + (n % 254), 1 + ((n * 3) % 254), 1 + ((n * 5) % 254), 1 + ((n * 7) % 254)>>,
              1 + ((n * 11) % 254), 850 + ((n * 13) % 141))

\* ------------------------------------------------------------------ state
Init ==
    /\ monitoring = FALSE
    /\ total_packets = 0
    /\ attacks_detected = 0
    /\ normal_traffic = 0
    /\ alerts = <<>>
    /\ traffic_data = <<>>
    /\ attack_distribution = [k \in AttackTypeSet |-> 0]
    /\ db_records = <<>>
    /\ detection_threshold = 85
    /\ pc = "idle"
    /\ event = "none"
    /\ rerun = FALSE
    /\ clock = 0
    /\ hist = <<>>
    /\ emitted = <<>>
    /\ insertLog = <<>>
    /\ lastDraw = Draw(0, 0, 0, 0, "none", "none", <<>>, 0, 0)
    /\ resets = 0

\* Variant: the id is the length before the append, without the + 1.
NewRecord_ZeroBased(db, record_type, data) ==
    [id |-> Len(db), timestamp |-> Now, type |-> record_type, data |-> data]

\* store_in_database(record_type, data): the record it builds for store db
NewRecord(db, record_type, data) ==
    [id |-> Len(db) + 1, timestamp |-> Now, type |-> record_type, data |-> data]

\* Variant: db_records.insert(0, record) instead of append.
store_in_database_Prepend(db, record_type, data) ==
    <<NewRecord(db, record_type, data)>> \o db

\* store_in_database(record_type, data): the store after the append
store_in_database(db, record_type, data) ==
    Append(db, NewRecord(db, record_type, data))

\* ------------------------------------------------------------- tick pieces
\* The sample appended to traffic_data.
Sample(d) ==
    [time |-> Now, normal |-> d.normal, suspicious |-> d.suspicious, attack |-> d.attack]

\* The payload of the 'traffic' record.
TrafficPayload(d) ==
    [normal |-> d.normal, suspicious |-> d.suspicious, attack |-> d.attack]

\* Variant: pop() removes the newest sample instead of the oldest.
AppendSample_DropNewest(td, sample) ==
    LET appended == Append(td, sample)
    IN  IF Len(appended) > TrafficWindow
        THEN SubSeq(appended, 1, Len(appended) - 1)
        ELSE appended

\* traffic_data.append(...) followed by "keep only last 30 points"
AppendSample(td, sample) ==
    LET appended == Append(td, sample)
    IN  IF Len(appended) > TrafficWindow THEN Tail(appended) ELSE appended

\* Variant: the suspicious packets are left out of the total.
PacketCount_NoSuspicious(d) == d.normal + d.attack

\* The amount added to total_packets.
PacketCount(d) == d.normal + d.suspicious + d.attack

\* Variant: the comparison is >= instead of >.
AlertEmitted_Inclusive(r) == r >= AlertCutoff

\* Variant: the comparison uses the detection_threshold setting.
AlertEmitted_UsesThreshold(r) == r > detection_threshold

\* if np.random.random() > 0.85
AlertEmitted(r) == r > AlertCutoff

\* The alert dictionary built in the alert branch.
NewAlert(al, d) ==
    [id |-> Len(al) + 1, time |-> Now, type |-> d.attack_type, severity |-> d.severity,
     source |-> d.source, destination |-> <<192, 168, 1, d.destination>>,
     confidence |-> d.confidence]

\* Variant: alerts.append(alert) instead of insert(0, alert).
InsertAlert_AtEnd(al, alert) == Head_n(Append(al, alert), AlertCap)

\* alerts.insert(0, alert) followed by alerts = alerts[:15]
InsertAlert(al, alert) == Head_n(<<alert>> \o al, AlertCap)

\* attack_distribution[attack_type] += 1
CountAttack(dist, attack_type) == [dist EXCEPT ![attack_type] = @ + 1]

\* Variant: the reset leaves attack_distribution as it is.
ClearDistribution_Kept(dist) == dist

\* {k: 0 for k in attack_distribution}
ClearDistribution(dist) == [k \in DOMAIN dist |-> 0]

\* Variant: db_records[-10:] without the reversal.
RecentRecords_Unreversed(db) == Last_n(db, RecentCount)

\* db_records[-10:][::-1]
RecentRecords(db) == Reverse(Last_n(db, RecentCount))

\* len([r for r in db_records if r['type'] == t])
CountByType(db, t) == Cardinality({i \in 1..Len(db) : db[i].type = t})

\* ---------------------------------------------------------------- actions
UserEvents == {"monitor_btn", "reset_btn", "export_btn", "threshold_slider"}

ThresholdChoices == {50, 85}

\* A script run starts on a user event or on a pending rerun; the
\* Start/Stop Monitoring button is processed first.
RunScript(ev) ==
    /\ pc = "idle"
    /\ ev \in UserEvents \cup (IF rerun THEN {"rerun"} ELSE {})
    /\ ev = "reset_btn" => resets < MaxResets
    /\ monitoring' = IF ev = "monitor_btn" THEN ~monitoring ELSE monitoring
    /\ event' = ev
    /\ rerun' = FALSE
    /\ pc' = "traffic"
    /\ UNCHANGED <<total_packets, attacks_detected, normal_traffic, alerts, traffic_data,
                   attack_distribution, db_records, detection_threshold, clock, hist,
                   emitted, insertLog, lastDraw, resets>>

\* "Generate traffic data when monitoring", with the draws d.
Tick(d) ==
    /\ pc = "traffic"
    /\ monitoring
    /\ LET sample == Sample(d)
           db1 == store_in_database(db_records, "traffic", TrafficPayload(d))
           rec1 == db1[Len(db1)]
           alert == NewAlert(alerts, d)
           db2 == store_in_database(db1, "alert", alert)
           rec2 == db2[Len(db2)]
       IN  /\ traffic_data' = AppendSample(traffic_data, sample)
           /\ total_packets' = total_packets + PacketCount(d)
           /\ normal_traffic' = normal_traffic + d.normal
           /\ hist' = Append(hist, sample)
           /\ IF AlertEmitted(d.r)
              THEN /\ attacks_detected' = attacks_detected + 1
                   /\ attack_distribution' = CountAttack(attack_distribution, d.attack_type)
                   /\ alerts' = InsertAlert(alerts, alert)
                   /\ db_records' = db2
                   /\ emitted' = Append(emitted, alert)
                   /\ insertLog' = insertLog \o <<rec1, rec2>>
              ELSE /\ db_records' = db1
                   /\ insertLog' = Append(insertLog, rec1)
                   /\ UNCHANGED <<attacks_detected, attack_distribution, alerts, emitted>>
    /\ lastDraw' = d
    /\ clock' = clock + 1
    /\ pc' = "settings"
    /\ UNCHANGED <<monitoring, detection_threshold, event, rerun, resets>>

\* Monitoring is off: the traffic block is skipped.
SkipTick ==
    /\ pc = "traffic"
    /\ ~monitoring
    /\ pc' = "settings"
    /\ UNCHANGED <<monitoring, total_packets, attacks_detected, normal_traffic, alerts,
                   traffic_data, attack_distribution, db_records, detection_threshold,
                   event, rerun, clock, hist, emitted, insertLog, lastDraw, resets>>

\* The Detection Threshold slider was moved to v.
SetThreshold(v) ==
    /\ pc = "settings"
    /\ event = "threshold_slider"
    /\ v \in ThresholdChoices
    /\ v # detection_threshold
    /\ detection_threshold' = v
    /\ pc' = "refresh"
    /\ UNCHANGED <<monitoring, total_packets, attacks_detected, normal_traffic, alerts,
                   traffic_data, attack_distribution, db_records, event, rerun, clock,
                   hist, emitted, insertLog, lastDraw, resets>>

\* The Reset Statistics button: clears the statistics and calls st.rerun().
ResetStatistics ==
    /\ pc = "settings"
    /\ event = "reset_btn"
    /\ resets' = resets + 1
    /\ total_packets' = 0
    /\ attacks_detected' = 0
    /\ normal_traffic' = 0
    /\ alerts' = <<>>
    /\ traffic_data' = <<>>
    /\ attack_distribution' = ClearDistribution(attack_distribution)
    /\ hist' = <<>>
    /\ emitted' = <<>>
    /\ rerun' = TRUE
    /\ event' = "none"
    /\ pc' = "idle"
    /\ UNCHANGED <<monitoring, db_records, detection_threshold, clock, insertLog, lastDraw>>

\* The Export Database button: builds the export from db_records.
ExportDatabase ==
    /\ pc = "settings"
    /\ event = "export_btn"
    /\ pc' = "refresh"
    /\ UNCHANGED <<monitoring, total_packets, attacks_detected, normal_traffic, alerts,
                   traffic_data, attack_distribution, db_records, detection_threshold,
                   event, rerun, clock, hist, emitted, insertLog, lastDraw, resets>>

\* No widget of the settings section fired in this run.
NoSettingsEvent ==
    /\ pc = "settings"
    /\ event \in {"monitor_btn", "rerun"}
    /\ pc' = "refresh"
    /\ UNCHANGED <<monitoring, total_packets, attacks_detected, normal_traffic, alerts,
                   traffic_data, attack_distribution, db_records, detection_threshold,
                   event, rerun, clock, hist, emitted, insertLog, lastDraw, resets>>

\* Variant: the rerun is scheduled whether monitoring is on or not.
AutoRefresh_Always ==
    /\ pc = "refresh"
    /\ rerun' = TRUE
    /\ event' = "none"
    /\ pc' = "idle"
    /\ UNCHANGED <<monitoring, total_packets, attacks_detected, normal_traffic, alerts,
                   traffic_data, attack_distribution, db_records, detection_threshold,
                   clock, hist, emitted, insertLog, lastDraw, resets>>

\* "Auto-refresh when monitoring is active": sleep, then st.rerun().
AutoRefresh ==
    /\ pc = "refresh"
    /\ rerun' = monitoring
    /\ event' = "none"
    /\ pc' = "idle"
    /\ UNCHANGED <<monitoring, total_packets, attacks_detected, normal_traffic, alerts,
                   traffic_data, attack_distribution, db_records, detection_threshold,
                   clock, hist, emitted, insertLog, lastDraw, resets>>

\* --------------------------------------------------------- specifications
Start == \E ev \in UserEvents \cup {"rerun"} : RunScript(ev)

MoveSlider == \E v \in ThresholdChoices : SetThreshold(v)

FreeTick == clock < MaxTicks /\ \E d \in FreeDraws : Tick(d)

ScriptTick == clock < MaxTicksLong /\ Tick(ScriptDraw(clock))

Next ==
    \/ Start
    \/ FreeTick
    \/ SkipTick
    \/ MoveSlider
    \/ ResetStatistics
    \/ ExportDatabase
    \/ NoSettingsEvent
    \/ AutoRefresh

Spec == Init /\ [][Next]_vars

NextLong ==
    \/ Start
    \/ ScriptTick
    \/ SkipTick
    \/ MoveSlider
    \/ ResetStatistics
    \/ ExportDatabase
    \/ NoSettingsEvent
    \/ AutoRefresh

SpecLong == Init /\ [][NextLong]_vars

\* ------------------------------------------------------------------ steps
\* The step taken by the Reset Statistics handler.
ResetStep == pc = "settings" /\ event = "reset_btn" /\ pc' = "idle"

\* The step taken by the traffic block when monitoring is on.
TickStep == pc = "traffic" /\ monitoring /\ pc' = "settings"

\* ----------------------------------------------------------------- claims

\* C1: after the Reset Statistics action total_packets, attacks_detected and
\* normal_traffic are 0 and the traffic window, the alert list and the record
\* store (db_records) are all empty.
C1_ResetEmptiesEverything ==
    [][ResetStep =>
          /\ total_packets' = 0
          /\ attacks_detected' = 0
          /\ normal_traffic' = 0
          /\ traffic_data' = <<>>
          /\ alerts' = <<>>
          /\ db_records' = <<>>]_vars

\* C2: in every reachable state the values of attack_distribution sum to
\* attacks_detected.
C2_DistributionSumsToAttacks ==
    /\ DistributionTotal = attacks_detected
    /\ DOMAIN attack_distribution = AttackTypeSet

\* An alert was counted, the statistics were reset, and an alert was counted
\* again.
C2_Witness ==
    /\ resets >= 1
    /\ attacks_detected >= 1
    /\ CountByType(db_records, "alert") > attacks_detected

\* C3: the traffic window has length min(k, 30), k being the number of ticks
\* since the last reset, and holds the k (at most 30) most recent samples in
\* chronological order.
C3_WindowIsLastSamples ==
    LET k == Len(hist)
        n == Min(k, 30)
    IN  /\ Len(traffic_data) = n
        /\ \A i \in 1..n : traffic_data[i] = hist[k - n + i]

\* More than 30 ticks have run and the oldest sample is gone.
C3_Witness ==
    /\ Len(hist) > 30
    /\ Len(traffic_data) = 30
    /\ traffic_data[1] # hist[1]

\* C4: the alert list has length min(a, 15), a being the number of alerts
\* emitted since the last reset, newest first: index 0 holds the newest alert
\* and the oldest ones are dropped beyond 15.
C4_AlertsNewestFirst ==
    LET a == Len(emitted)
        n == Min(a, 15)
    IN  /\ Len(alerts) = n
        /\ \A i \in 1..n : alerts[i] = emitted[a + 1 - i]

\* More than 15 alerts were emitted and the first one is no longer listed.
C4_Witness ==
    /\ Len(emitted) > 15
    /\ Len(alerts) = 15
    /\ \A i \in 1..Len(alerts) : alerts[i] # emitted[1]

RECURSIVE SumPackets(_)
SumPackets(h) ==
    IF h = <<>> THEN 0
    ELSE Head(h).normal + Head(h).suspicious + Head(h).attack + SumPackets(Tail(h))

RECURSIVE SumNormal(_)
SumNormal(h) == IF h = <<>> THEN 0 ELSE Head(h).normal + SumNormal(Tail(h))

\* C5: total_packets is the sum of normal+suspicious+attack over the ticks
\* since the last reset and normal_traffic the sum of normal over them;
\* total_packets never decreases except by a reset, which sets it to 0.
C5_CountersAreSums ==
    /\ [](/\ total_packets = SumPackets(hist)
          /\ normal_traffic = SumNormal(hist))
    /\ [][\/ total_packets' >= total_packets
          \/ ResetStep /\ total_packets' = 0]_vars

\* Ticks ran, the statistics were reset, and several ticks ran again.
C5_Witness ==
    /\ resets >= 1
    /\ Len(hist) >= 3
    /\ Len(db_records) > Len(hist) + Len(emitted)
    /\ total_packets > normal_traffic

\* C6: the recent-10 view holds min(10, number of stored records) records,
\* the records of the last 10 insert calls, most recently inserted first.
C6_RecentIsLastTenInserts ==
    LET view == RecentRecords(db_records)
        n == Len(insertLog)
        m == Min(10, Len(db_records))
    IN  /\ Len(view) = m
        /\ m <= n
        /\ \A i \in 1..m : view[i] = insertLog[n + 1 - i]

\* More than 10 records are stored, some of them from before a reset.
C6_Witness ==
    /\ Len(db_records) > 10
    /\ resets >= 1
    /\ Len(hist) >= 1
    /\ RecentRecords(db_records)[1] = insertLog[Len(insertLog)]

\* C7: every insert gives the new record an id greater than the id of every
\* record inserted before it, whatever ticks and resets happened; ids in the
\* store are pairwise distinct and the record at position i has id i.
C7_RecordIdsIncrease ==
    /\ \A i \in 1..Len(insertLog) : \A j \in 1..Len(insertLog) :
          i < j => insertLog[i].id < insertLog[j].id
    /\ \A i \in 1..Len(db_records) : \A j \in 1..Len(db_records) :
          i # j => db_records[i].id # db_records[j].id
    /\ \A i \in 1..Len(db_records) : db_records[i].id = i

\* Records were inserted before and after a reset.
C7_Witness ==
    /\ resets >= 1
    /\ Len(hist) >= 1
    /\ Len(insertLog) > Len(hist) + Len(emitted)

\* s is a prefix of t.
IsPrefix(s, t) == Len(s) <= Len(t) /\ \A i \in 1..Len(s) : s[i] = t[i]

\* C8: the record store is append-only: a tick appends one 'traffic' record
\* and, exactly when it emits an alert, one 'alert' record right after it;
\* stored records keep position and content; no step other than a reset
\* removes a record; every record is of type traffic or alert and the
\* per-type counts sum to the total.
C8_StoreAppendOnly ==
    /\ [][IF TickStep
          THEN /\ IsPrefix(db_records, db_records')
               /\ LET n == Len(db_records)
                      alerted == Len(emitted') = Len(emitted) + 1
                  IN  /\ Len(db_records') = n + (IF alerted THEN 2 ELSE 1)
                      /\ db_records'[n + 1].type = "traffic"
                      /\ alerted => db_records'[n + 2].type = "alert"
          ELSE ResetStep \/ db_records' = db_records]_vars
    /\ [](/\ \A i \in 1..Len(db_records) : db_records[i].type \in {"traffic", "alert"}
          /\ CountByType(db_records, "traffic") + CountByType(db_records, "alert")
                = Len(db_records))

\* The store holds a traffic record followed by its alert record, and a
\* traffic record of a tick without alert.
C8_Witness ==
    /\ \E i \in 1..(Len(db_records) - 1) :
          db_records[i].type = "traffic" /\ db_records[i + 1].type = "alert"
    /\ \E i \in 1..(Len(db_records) - 1) :
          db_records[i].type = "traffic" /\ db_records[i + 1].type = "traffic"

\* C9: a tick emits an alert exactly when the draw is strictly greater than
\* 0.85; then attacks_detected grows by 1, attack_distribution grows by 1 for
\* the chosen type only, and one alert of that type is put at the head of the
\* alert list; otherwise the three are unchanged.
C9_AlertBranch ==
    [][TickStep =>
          LET d == lastDraw'
          IN  IF d.r > 85
              THEN /\ attacks_detected' = attacks_detected + 1
                   /\ \A k \in AttackTypeSet :
                         attack_distribution'[k] =
                            attack_distribution[k] + (IF k = d.attack_type THEN 1 ELSE 0)
                   /\ DOMAIN attack_distribution' = AttackTypeSet
                   /\ Len(alerts') = Min(Len(alerts) + 1, 15)
                   /\ alerts'[1].type = d.attack_type
                   /\ \A i \in 2..Len(alerts') : alerts'[i] = alerts[i - 1]
                   /\ Len(emitted') = Len(emitted) + 1
              ELSE /\ attacks_detected' = attacks_detected
                   /\ attack_distribution' = attack_distribution
                   /\ alerts' = alerts
                   /\ emitted' = emitted]_vars

\* A tick whose draw was exactly 0.85 has just run after two ticks that
\* emitted alerts of different types.
C9_Witness ==
    /\ pc = "settings"
    /\ lastDraw.r = 85
    /\ Len(alerts) = 2
    /\ alerts[1].type # alerts[2].type
    /\ Len(hist) = 3

\* C10: the alerts retained in the alert list have pairwise distinct ids,
\* also after more than 15 alerts were emitted and the list was truncated.
C10_AlertIdsDistinct ==
    \A i \in 1..Len(alerts) : \A j \in 1..Len(alerts) :
        i # j => alerts[i].id # alerts[j].id

\* The step taken by the Detection Threshold slider handler.
SliderStep == pc = "settings" /\ event = "threshold_slider" /\ pc' = "refresh"

\* What the simulation computes: everything except the setting itself and
\* the position of the script run.
simulation == <<monitoring, total_packets, attacks_detected, normal_traffic, alerts,
                traffic_data, attack_distribution, db_records, rerun, clock, hist,
                emitted, insertLog, lastDraw, resets>>

telemetry == <<total_packets, normal_traffic, attacks_detected, attack_distribution,
               traffic_data, alerts, db_records>>

\* What every script run does when monitoring is on after the Start/Stop
\* button: one tick in the traffic block, none elsewhere, and a pending rerun
\* when the run ends.  The button itself writes none of the telemetry.
OnPass ==
    /\ pc = "idle" => telemetry' = telemetry /\ clock' = clock
    /\ (pc = "traffic" /\ monitoring) =>
          /\ clock' = clock + 1
          /\ Len(hist') = Len(hist) + 1
          /\ Len(db_records') > Len(db_records)
    /\ (pc \in {"settings", "refresh"} /\ monitoring) =>
          /\ clock' = clock
          /\ insertLog' = insertLog
          /\ pc' = "idle" => rerun'

====
